---- MODULE Spec2Model ----
(***************************************************************************)
(* PythonExecutionService (src/client/common/process/pythonProcess.ts).    *)
(*                                                                         *)
(* Each caller runs one operation of the service at a time.  An operation  *)
(* hands process executions to the external process service (procService), *)
(* which settles them later, in any order, as resolved or rejected.  The   *)
(* options objects live in a heap so that the spread copy `{ ...options }` *)
(* is a real shallow copy: a new object with the same field values, nested *)
(* objects shared by reference.                                            *)
(***************************************************************************)
EXTENDS Integers, Sequences, FiniteSets, TLC

VARIABLES
    pc,          \* caller -> position in the running operation
    op,          \* caller -> operation being run
    moduleName,  \* caller -> moduleName argument of the running operation
    userArgs,    \* caller -> args argument of the running operation
    slots,       \* caller -> execution slot -> execution handed to procService
    issued,      \* caller -> execution slot -> executions issued in this call
    ret,         \* caller -> outcome of the operation
    logged,      \* caller -> sequence of traceError messages of this call
    fileExisted, \* caller -> answer of fileSystem.fileExists in this call
    heap,        \* options object id -> top-level fields of the object
    envs,        \* nested env object id -> content of the object
    snapshot     \* the caller's options object as inspected before any call

vars == <<pc, op, moduleName, userArgs, slots, issued, ret, logged,
          fileExisted, heap, envs, snapshot>>

-----------------------------------------------------------------------------
(* Bounds *)

\* Longest versionInfo array the helper script's JSON carries.
MaxLen == 4

-----------------------------------------------------------------------------
(* Callers, objects, values *)

Callers == {"a", "b"}

\* The caller's options object; the copy made for caller c has id c.
OptionsId == "options"
ObjIds == {OptionsId} \cup Callers
NoRef == "none"

\* The env object nested in the caller's options, and one the service makes.
EnvIds == {"env", "svcEnv"}
EnvContents == {"orig", "touched"}

OptionRecords == [throwOnStdErr : BOOLEAN, env : EnvIds]

pythonPath == <<"p", "y">>

Modules == {"", "pylint", "pytest"}
ArgLists == {<<>>, <<"-v">>}

SlotNames == {"version", "script", "main", "probe"}

\* JavaScript values of the entries of versionInfo.
Num(n) == [k |-> "number", n |-> n, s |-> ""]
Str(s) == [k |-> "string", n |-> 0, s |-> s]

ElemVals == {Num(1), Num(3), Str("x"), Str("rc"), Str("final")}

SeqsUpTo(S, n) == UNION {[1..k -> S] : k \in 0..n}

\* The helper script's stdout, by what JSON.parse makes of it.
NoDoc == [kind |-> "malformed", hasVersionInfo |-> FALSE, versionInfo |-> <<>>,
          is64Bit |-> "missing", sysPrefix |-> "", sysVersion |-> ""]

ObjectDocs ==
    {[kind |-> "object", hasVersionInfo |-> h, versionInfo |-> v,
      is64Bit |-> b, sysPrefix |-> "/usr", sysVersion |-> "3.7.1 (default)"] :
        h \in {TRUE}, v \in SeqsUpTo(ElemVals, MaxLen),
        b \in {"true", "false", "missing", "string"}}
    \cup
    {[kind |-> "object", hasVersionInfo |-> FALSE, versionInfo |-> <<>>,
      is64Bit |-> b, sysPrefix |-> "/usr", sysVersion |-> "3.7.1 (default)"] :
        b \in {"true", "false"}}

Docs == ObjectDocs \cup {NoDoc, [NoDoc EXCEPT !.kind = "null"]}

\* Text as a sequence of characters.
Whitespace == {" ", "\n"}
StdOuts == {<<"p">>, <<" ", "p", " ", "q", "\n">>}

NoStdErr == ""
NoModuleNamed == "No module named"
StdErrs == {NoStdErr, NoModuleNamed, "Traceback"}

NoOut == [stdout |-> <<>>, stderr |-> NoStdErr, doc |-> NoDoc]

NoReq == [args |-> <<>>, observable |-> FALSE, ref |-> NoRef,
          throwOnStdErr |-> FALSE, mergeStdOutErr |-> FALSE]

NoSlot == [st |-> "none", req |-> NoReq, out |-> NoOut]

NoInfo == [architecture |-> "", path |-> <<>>, version |-> <<>>,
           sysVersion |-> "", version_info |-> <<>>, sysPrefix |-> ""]

\* Outcomes of an operation.
NoRet == [kind |-> "none", str |-> <<>>, bool |-> FALSE, out |-> NoOut,
          info |-> NoInfo, err |-> "", errModule |-> ""]
Absent == [NoRet EXCEPT !.kind = "absent"]
RetString(s) == [NoRet EXCEPT !.kind = "string", !.str = s]
RetBool(b) == [NoRet EXCEPT !.kind = "bool", !.bool = b]
RetResult(o) == [NoRet EXCEPT !.kind = "result", !.out = o]
RetInfo(i) == [NoRet EXCEPT !.kind = "info", !.info = i]
RetObservable == [NoRet EXCEPT !.kind = "observable"]
Raise(e, m) == [NoRet EXCEPT !.kind = "error", !.err = e, !.errModule = m]

ProcessError == "ProcessExecutionError"
ModuleNotInstalledError == "ModuleNotInstalledError"

ParseFailedMsg == "Failed to parse interpreter information"
GetFailedMsg == "Failed to get interpreter information"

-----------------------------------------------------------------------------
(* Pure functions *)

RECURSIVE TrimLeft(_)
TrimLeft(s) ==
    IF s # <<>> /\ Head(s) \in Whitespace THEN TrimLeft(Tail(s)) ELSE s

RECURSIVE TrimRight(_)
TrimRight(s) ==
    IF s # <<>> /\ s[Len(s)] \in Whitespace
    THEN TrimRight(SubSeq(s, 1, Len(s) - 1))
    ELSE s

TrimNone(s) == s

\* String.prototype.trim
Trim(s) == TrimRight(TrimLeft(s))

\* JSON.parse throws a SyntaxError on text that is not JSON.
JSONParseThrows(doc) == doc.kind = "malformed"

\* Reading json.versionInfo[index] throws a TypeError when json is null or
\* json.versionInfo is undefined.
VersionInfoThrows(doc) == doc.kind = "null" \/ ~doc.hasVersionInfo

ReleaseLevels == {Str("alpha"), Str("beta"), Str("candidate"), Str("final")}

Max(a, b) == IF a >= b THEN a ELSE b

SanitizeTwo(vi) ==
    [i \in 1..Max(Len(vi), 4) |->
        IF i <= 2
        THEN IF i <= Len(vi) /\ vi[i].k = "number" THEN vi[i] ELSE Num(0)
        ELSE IF i = 4
        THEN IF i <= Len(vi) /\ vi[i] \in ReleaseLevels
             THEN vi[i] ELSE Str("unknown")
        ELSE IF i <= Len(vi) THEN vi[i] ELSE Num(0)]

\* The sanitization of version_info, in place: entries 0..2 that are not
\* numbers become 0, entry 3 outside the release levels becomes 'unknown'.
Sanitize(vi) ==
    [i \in 1..Max(Len(vi), 4) |->
        IF i <= 3
        THEN IF i <= Len(vi) /\ vi[i].k = "number" THEN vi[i] ELSE Num(0)
        ELSE IF i = 4
        THEN IF i <= Len(vi) /\ vi[i] \in ReleaseLevels
             THEN vi[i] ELSE Str("unknown")
        ELSE vi[i]]

\* JavaScript truthiness of json.is64Bit.
Truthy(b) == b \in {"true", "string"}

ArchitectureSwapped(b) == IF Truthy(b) THEN "x86" ELSE "x64"

ArchitectureOf(b) == IF Truthy(b) THEN "x64" ELSE "x86"

InfoOf(version, doc) ==
    [architecture |-> ArchitectureOf(doc.is64Bit),
     path |-> pythonPath,
     version |-> version,
     sysVersion |-> doc.sysVersion,
     version_info |-> Sanitize(doc.versionInfo),
     sysPrefix |-> doc.sysPrefix]

ParseCatchSilent == [ret |-> Absent, logs |-> <<>>]

\* The inner catch: log the parse failure, return undefined.
ParseCatch == [ret |-> Absent, logs |-> <<ParseFailedMsg>>]

OuterCatchRethrow == [ret |-> Raise(ProcessError, ""), logs |-> <<GetFailedMsg>>]

\* The outer catch: log the failure, fall off the end (undefined).
OuterCatch == [ret |-> Absent, logs |-> <<GetFailedMsg>>]

PromiseAllFirstFulfilled(vs, ss) == vs.st = "resolved"

\* Promise.all fulfils when every promise has fulfilled ...
PromiseAllFulfilled(vs, ss) == vs.st = "resolved" /\ ss.st = "resolved"

\* ... and rejects as soon as one of them rejects.
PromiseAllRejected(vs, ss) == vs.st = "rejected" \/ ss.st = "rejected"

\* What getInterpreterInformation does once Promise.all has settled.
GetInterpreterInformationBody(vs, ss) ==
    IF PromiseAllRejected(vs, ss) THEN OuterCatch
    ELSE IF JSONParseThrows(ss.out.doc) THEN ParseCatch
    ELSE IF VersionInfoThrows(ss.out.doc) THEN OuterCatch
    ELSE [ret |-> RetInfo(InfoOf(Trim(vs.out.stdout), ss.out.doc)),
          logs |-> <<>>]

\* ErrorUtils.outputHasModuleNotInstalledError, an external collaborator:
\* whether the stderr text carries the not-installed pattern for the module.
OutputHasModuleNotInstalledError(m, stderr) == stderr = NoModuleNamed

NeedsProbeAlways(m, stderr) == TRUE

\* The condition of execModule under which the import probe is run.
NeedsProbe(m, stderr) ==
    m # "" /\ OutputHasModuleNotInstalledError(m, stderr)

IsInstalledAlways(slot) == TRUE

\* isModuleInstalled: .then(() => true).catch(() => false)
IsInstalledOf(slot) == slot.st = "resolved"

ExecModuleVerdictLenient(isInstalled, m, result) == RetResult(result)

\* execModule after the probe: throw if not installed, else the result.
ExecModuleVerdict(isInstalled, m, result) ==
    IF ~isInstalled THEN Raise(ModuleNotInstalledError, m)
    ELSE RetResult(result)

SpreadAlias(h, src, dst) == [heap |-> h, ref |-> src]

\* const opts = { ...options }: a new object with the fields of options.
SpreadOptions(h, src, dst) ==
    [heap |-> [h EXCEPT ![dst] = h[src]], ref |-> dst]

\* Argument lists and option literals of the executions.
VersionReq ==
    [NoReq EXCEPT !.args = <<"--version">>, !.mergeStdOutErr = TRUE]
ScriptReq ==
    [NoReq EXCEPT !.args = <<"pythonFiles/interpreterInfo.py">>,
                  !.mergeStdOutErr = TRUE]
SysExecutableReq ==
    [NoReq EXCEPT !.args = <<"-c", "import sys;print(sys.executable)">>,
                  !.throwOnStdErr = TRUE]
ProbeReq(m) ==
    [NoReq EXCEPT !.args = <<"-c", "import", m>>, !.throwOnStdErr = TRUE]
UserReq(args, ref, observable) ==
    [NoReq EXCEPT !.args = args, !.ref = ref, !.observable = observable]

Running(req) == [st |-> "running", req |-> req, out |-> NoOut]

-----------------------------------------------------------------------------
(* State *)

NoSlots == [s \in SlotNames |-> NoSlot]
NoIssued == [s \in SlotNames |-> 0]

Init ==
    /\ pc = [c \in Callers |-> "idle"]
    /\ op = [c \in Callers |-> "none"]
    /\ moduleName = [c \in Callers |-> ""]
    /\ userArgs = [c \in Callers |-> <<>>]
    /\ slots = [c \in Callers |-> NoSlots]
    /\ issued = [c \in Callers |-> NoIssued]
    /\ ret = [c \in Callers |-> NoRet]
    /\ logged = [c \in Callers |-> <<>>]
    /\ fileExisted = [c \in Callers |-> FALSE]
    /\ \E t \in BOOLEAN :
          heap = [o \in ObjIds |-> [throwOnStdErr |-> t, env |-> "env"]]
    /\ envs = [e \in EnvIds |-> "orig"]
    /\ snapshot = [top |-> heap[OptionsId], envContent |-> envs["env"]]

\* An operation starts: its name and arguments are recorded.
Begin(c, name, m, args) ==
    /\ pc[c] = "idle"
    /\ op' = [op EXCEPT ![c] = name]
    /\ moduleName' = [moduleName EXCEPT ![c] = m]
    /\ userArgs' = [userArgs EXCEPT ![c] = args]

\* procService.exec / execObservable is called with the request.
Issue(c, s, req) ==
    /\ slots' = [slots EXCEPT ![c][s] = Running(req)]
    /\ issued' = [issued EXCEPT ![c][s] = @ + 1]

Finish(c, r) ==
    /\ pc' = [pc EXCEPT ![c] = "done"]
    /\ ret' = [ret EXCEPT ![c] = r]

-----------------------------------------------------------------------------
(* getInterpreterInformation *)

CallGetInterpreterInformation(c) ==
    /\ Begin(c, "getInterpreterInformation", "", <<>>)
    /\ slots' = [slots EXCEPT ![c]["version"] = Running(VersionReq),
                              ![c]["script"] = Running(ScriptReq)]
    /\ issued' = [issued EXCEPT ![c]["version"] = @ + 1,
                                ![c]["script"] = @ + 1]
    /\ pc' = [pc EXCEPT ![c] = "awaitAll"]
    /\ UNCHANGED <<ret, logged, fileExisted, heap, envs, snapshot>>

GetInterpreterInformationResume(c) ==
    /\ pc[c] = "awaitAll"
    /\ LET vs == slots[c]["version"]
           ss == slots[c]["script"]
           r == GetInterpreterInformationBody(vs, ss)
       IN  /\ PromiseAllRejected(vs, ss) \/ PromiseAllFulfilled(vs, ss)
           /\ Finish(c, r.ret)
           /\ logged' = [logged EXCEPT ![c] = @ \o r.logs]
    /\ UNCHANGED <<op, moduleName, userArgs, slots, issued, fileExisted,
                   heap, envs, snapshot>>

-----------------------------------------------------------------------------
(* getExecutablePath *)

CallGetExecutablePath(c) ==
    /\ Begin(c, "getExecutablePath", "", <<>>)
    /\ \E exists \in BOOLEAN :
        /\ fileExisted' = [fileExisted EXCEPT ![c] = exists]
        /\ IF exists
           THEN /\ Finish(c, RetString(pythonPath))
                /\ UNCHANGED <<slots, issued>>
           ELSE /\ Issue(c, "main", SysExecutableReq)
                /\ pc' = [pc EXCEPT ![c] = "awaitPath"]
                /\ UNCHANGED ret
    /\ UNCHANGED <<logged, heap, envs, snapshot>>

GetExecutablePathResume(c) ==
    /\ pc[c] = "awaitPath"
    /\ LET e == slots[c]["main"]
       IN  \/ /\ e.st = "resolved"
              /\ Finish(c, RetString(Trim(e.out.stdout)))
           \/ /\ e.st = "rejected"
              /\ Finish(c, Raise(ProcessError, ""))
    /\ UNCHANGED <<op, moduleName, userArgs, slots, issued, logged,
                   fileExisted, heap, envs, snapshot>>

-----------------------------------------------------------------------------
(* isModuleInstalled *)

CallIsModuleInstalled(c) ==
    /\ \E m \in Modules : /\ Begin(c, "isModuleInstalled", m, <<>>)
                          /\ Issue(c, "probe", ProbeReq(m))
    /\ pc' = [pc EXCEPT ![c] = "awaitProbe"]
    /\ UNCHANGED <<ret, logged, fileExisted, heap, envs, snapshot>>

IsModuleInstalledResume(c) ==
    /\ pc[c] = "awaitProbe"
    /\ op[c] = "isModuleInstalled"
    /\ slots[c]["probe"].st \in {"resolved", "rejected"}
    /\ Finish(c, RetBool(IsInstalledOf(slots[c]["probe"])))
    /\ UNCHANGED <<op, moduleName, userArgs, slots, issued, logged,
                   fileExisted, heap, envs, snapshot>>

-----------------------------------------------------------------------------
(* execObservable, execModuleObservable, exec *)

CallExecObservable(c, args) ==
    /\ LET cp == SpreadOptions(heap, OptionsId, c)
       IN  /\ Begin(c, "execObservable", "", args)
           /\ heap' = cp.heap
           /\ Issue(c, "main", UserReq(args, cp.ref, TRUE))
    /\ Finish(c, RetObservable)
    /\ UNCHANGED <<logged, fileExisted, envs, snapshot>>

CallExecModuleObservable(c, m, args) ==
    /\ LET cp == SpreadOptions(heap, OptionsId, c)
       IN  /\ Begin(c, "execModuleObservable", m, args)
           /\ heap' = cp.heap
           /\ Issue(c, "main", UserReq(<<"-m", m>> \o args, cp.ref, TRUE))
    /\ Finish(c, RetObservable)
    /\ UNCHANGED <<logged, fileExisted, envs, snapshot>>

CallExec(c, args) ==
    /\ LET cp == SpreadOptions(heap, OptionsId, c)
       IN  /\ Begin(c, "exec", "", args)
           /\ heap' = cp.heap
           /\ Issue(c, "main", UserReq(args, cp.ref, FALSE))
    /\ pc' = [pc EXCEPT ![c] = "awaitExec"]
    /\ UNCHANGED <<ret, logged, fileExisted, envs, snapshot>>

ExecResume(c) ==
    /\ pc[c] = "awaitExec"
    /\ LET e == slots[c]["main"]
       IN  \/ /\ e.st = "resolved"
              /\ Finish(c, RetResult(e.out))
           \/ /\ e.st = "rejected"
              /\ Finish(c, Raise(ProcessError, ""))
    /\ UNCHANGED <<op, moduleName, userArgs, slots, issued, logged,
                   fileExisted, heap, envs, snapshot>>

-----------------------------------------------------------------------------
(* execModule *)

CallExecModule(c, m, args) ==
    /\ LET cp == SpreadOptions(heap, OptionsId, c)
       IN  /\ Begin(c, "execModule", m, args)
           /\ heap' = cp.heap
           /\ Issue(c, "main", UserReq(<<"-m", m>> \o args, cp.ref, FALSE))
    /\ pc' = [pc EXCEPT ![c] = "awaitModule"]
    /\ UNCHANGED <<ret, logged, fileExisted, envs, snapshot>>

\* The module command has settled: propagate its error, or inspect stderr
\* and either run the import probe or return the result.
ExecModuleResume(c) ==
    /\ pc[c] = "awaitModule"
    /\ LET e == slots[c]["main"]
       IN  \/ /\ e.st = "rejected"
              /\ Finish(c, Raise(ProcessError, ""))
              /\ UNCHANGED <<slots, issued>>
           \/ /\ e.st = "resolved"
              /\ IF NeedsProbe(moduleName[c], e.out.stderr)
                 THEN /\ Issue(c, "probe", ProbeReq(moduleName[c]))
                      /\ pc' = [pc EXCEPT ![c] = "awaitProbe"]
                      /\ UNCHANGED ret
                 ELSE /\ Finish(c, RetResult(e.out))
                      /\ UNCHANGED <<slots, issued>>
    /\ UNCHANGED <<op, moduleName, userArgs, logged, fileExisted, heap, envs,
                   snapshot>>

ExecModuleProbeResume(c) ==
    /\ pc[c] = "awaitProbe"
    /\ op[c] = "execModule"
    /\ slots[c]["probe"].st \in {"resolved", "rejected"}
    /\ Finish(c, ExecModuleVerdict(IsInstalledOf(slots[c]["probe"]),
                                   moduleName[c], slots[c]["main"].out))
    /\ UNCHANGED <<op, moduleName, userArgs, slots, issued, logged,
                   fileExisted, heap, envs, snapshot>>

-----------------------------------------------------------------------------
(* The caller takes the outcome; the call's state is dropped. *)

Return(c) ==
    /\ pc[c] = "done"
    /\ pc' = [pc EXCEPT ![c] = "idle"]
    /\ op' = [op EXCEPT ![c] = "none"]
    /\ moduleName' = [moduleName EXCEPT ![c] = ""]
    /\ userArgs' = [userArgs EXCEPT ![c] = <<>>]
    /\ slots' = [slots EXCEPT ![c] = NoSlots]
    /\ issued' = [issued EXCEPT ![c] = NoIssued]
    /\ ret' = [ret EXCEPT ![c] = NoRet]
    /\ logged' = [logged EXCEPT ![c] = <<>>]
    /\ fileExisted' = [fileExisted EXCEPT ![c] = FALSE]
    /\ heap' = [heap EXCEPT ![c] = heap[OptionsId]]
    /\ UNCHANGED <<envs, snapshot>>

-----------------------------------------------------------------------------
(* The external process service *)

\* throwOnStdErr as the service reads it from the options it was given.
ThrowOnStdErr(req) ==
    IF req.ref = NoRef THEN req.throwOnStdErr ELSE heap[req.ref].throwOnStdErr

\* What a finished process can have written, by execution.
Outputs(s, req) ==
    IF s = "script"
    THEN {[stdout |-> <<>>, stderr |-> NoStdErr, doc |-> d] : d \in Docs}
    ELSE IF req.mergeStdOutErr
    THEN {[stdout |-> o, stderr |-> NoStdErr, doc |-> NoDoc] : o \in StdOuts}
    ELSE IF req.ref = NoRef
    THEN {[stdout |-> o, stderr |-> e, doc |-> NoDoc] :
            o \in StdOuts, e \in StdErrs}
    ELSE {[stdout |-> <<"o">>, stderr |-> e, doc |-> NoDoc] : e \in StdErrs}

\* An execution settles: rejected on a spawn failure, or on stderr output
\* when throwOnStdErr is set; resolved with the output otherwise.
ServiceSettle(c) ==
    /\ \E s \in SlotNames :
        /\ slots[c][s].st = "running"
        /\ \E failed \in BOOLEAN, out \in Outputs(s, slots[c][s].req) :
            LET rejected ==
                    \/ failed
                    \/ ThrowOnStdErr(slots[c][s].req) /\ out.stderr # NoStdErr
            IN  slots' = [slots EXCEPT
                    ![c][s].st = IF rejected THEN "rejected" ELSE "resolved",
                    ![c][s].out = IF rejected THEN NoOut ELSE out]
    /\ UNCHANGED <<pc, op, moduleName, userArgs, issued, ret, logged,
                   fileExisted, heap, envs, snapshot>>

\* The service writes to the options object it was given: it assigns its
\* top-level fields, or writes into the env object the options refer to.
ServiceTouchOptions(c) ==
    /\ \E s \in SlotNames :
        LET req == slots[c][s].req
        IN  /\ slots[c][s].st = "running"
            /\ req.ref # NoRef
            /\ \/ /\ \E r \in OptionRecords :
                        /\ r # heap[req.ref]
                        /\ heap' = [heap EXCEPT ![req.ref] = r]
                  /\ UNCHANGED envs
               \/ /\ envs[heap[req.ref].env] = "orig"
                  /\ envs' = [envs EXCEPT ![heap[req.ref].env] = "touched"]
                  /\ UNCHANGED heap
    /\ UNCHANGED <<pc, op, moduleName, userArgs, slots, issued, ret, logged,
                   fileExisted, snapshot>>

-----------------------------------------------------------------------------
(* Specifications *)

Operations(c) ==
    \/ CallGetInterpreterInformation(c)
    \/ GetInterpreterInformationResume(c)
    \/ CallGetExecutablePath(c)
    \/ GetExecutablePathResume(c)
    \/ CallIsModuleInstalled(c)
    \/ IsModuleInstalledResume(c)

Executions(c, M, A) ==
    \/ \E args \in A : CallExecObservable(c, args)
    \/ \E m \in M, args \in A : CallExecModuleObservable(c, m, args)
    \/ \E args \in A : CallExec(c, args)
    \/ ExecResume(c)
    \/ \E m \in M, args \in A : CallExecModule(c, m, args)
    \/ ExecModuleResume(c)
    \/ ExecModuleProbeResume(c)
    \/ ServiceSettle(c)
    \/ ServiceTouchOptions(c)
    \/ Return(c)

\* One caller, every operation of the service.
Next == Operations("a") \/ Executions("a", Modules, ArgLists)

Spec == Init /\ [][Next]_vars

\* Two callers sharing one options object, the operations that take options.
NextShared == \E c \in Callers : Executions(c, {"pylint"}, {<<>>})

SpecShared == Init /\ [][NextShared]_vars

-----------------------------------------------------------------------------
(* Properties *)

Done(c, name) == pc[c] = "done" /\ op[c] = name

Main(c) == slots[c]["main"]
Probe(c) == slots[c]["probe"]
Version(c) == slots[c]["version"]
Script(c) == slots[c]["script"]

BothResolved(c) == Version(c).st = "resolved" /\ Script(c).st = "resolved"

TotalIssued(c) ==
    issued[c]["version"] + issued[c]["script"] + issued[c]["main"]
        + issued[c]["probe"]

\* t is s without its leading and trailing whitespace.
IsTrimOf(t, s) ==
    /\ t = <<>> \/ (t[1] \notin Whitespace /\ t[Len(t)] \notin Whitespace)
    /\ \E i \in 0..Len(s), j \in 0..Len(s) :
        /\ i + Len(t) + j = Len(s)
        /\ \A k \in 1..Len(s) :
            IF k <= i \/ k > i + Len(t)
            THEN s[k] \in Whitespace
            ELSE s[k] = t[k - i]

\* C1: once the module command of execModule has completed, execModule
\* raises ModuleNotInstalledError naming moduleName exactly when the
\* heuristic flags the command's stderr and the follow-up import probe
\* returned false; in every other case it returns the command's result
\* unchanged, whatever failure that result encodes.
C1_ExecModuleOutcome ==
    \A c \in Callers :
        Done(c, "execModule") /\ Main(c).st = "resolved" =>
            LET missing ==
                    /\ OutputHasModuleNotInstalledError(moduleName[c],
                                                        Main(c).out.stderr)
                    /\ Probe(c).st = "rejected"
            IN  /\ missing <=>
                    ret[c] = Raise(ModuleNotInstalledError, moduleName[c])
                /\ ~missing => ret[c] = RetResult(Main(c).out)

C1_Witness ==
    \E c \in Callers :
        /\ Done(c, "execModule")
        /\ Main(c).st = "resolved"
        /\ Probe(c).st = "rejected"
        /\ ret[c] = Raise(ModuleNotInstalledError, "pylint")

\* C2: when the version execution or the helper-script execution of
\* getInterpreterInformation fails, in any combination and order, the
\* operation returns an absent result; it never ends in an error.
C2_DiscoveryFailureAbsent ==
    \A c \in Callers :
        Done(c, "getInterpreterInformation") =>
            /\ ret[c].kind # "error"
            /\ (Version(c).st = "rejected" \/ Script(c).st = "rejected")
                    => ret[c] = Absent

C2_Witness ==
    \E c \in Callers :
        /\ Done(c, "getInterpreterInformation")
        /\ Version(c).st = "resolved"
        /\ Script(c).st = "rejected"
        /\ ret[c] = Absent

\* C3: when both executions succeed and the helper script's output is not
\* JSON, getInterpreterInformation returns an absent result, raises nothing,
\* and has logged the parse failure by the time it returns.
C3_MalformedJsonAbsent ==
    \A c \in Callers :
        /\ Done(c, "getInterpreterInformation")
        /\ BothResolved(c)
        /\ Script(c).out.doc.kind = "malformed"
        => ret[c] = Absent /\ logged[c] = <<ParseFailedMsg>>

C3_Witness ==
    \E c \in Callers :
        /\ Done(c, "getInterpreterInformation")
        /\ BothResolved(c)
        /\ Script(c).out.doc.kind = "malformed"
        /\ logged[c] # <<>>

PopulatedAsClaimed(c) ==
    LET doc == Script(c).out.doc
        vi == ret[c].info.version_info
    IN  /\ ret[c].kind = "info"
        /\ doc.is64Bit \in {"true", "false", "missing"} =>
                (ret[c].info.architecture = "x64" <=> doc.is64Bit = "true")
        /\ Len(vi) >= 4
        /\ \A i \in 1..3 : vi[i].k = "number"
        /\ vi[4] \in ReleaseLevels \cup {Str("unknown")}

\* C4, as stated: whenever both executions succeed and the helper script's
\* output is well-formed JSON, the result is a populated record with the
\* architecture of the is64Bit flag, numbers in positions 0-2 of the
\* version tuple and a release level among alpha, beta, candidate, final,
\* unknown.
C4_AsStated ==
    \A c \in Callers :
        /\ Done(c, "getInterpreterInformation")
        /\ BothResolved(c)
        /\ Script(c).out.doc.kind # "malformed"
        => PopulatedAsClaimed(c)

\* C4, amended: the same, for well-formed JSON that is an object carrying
\* a versionInfo array (is64Bit a boolean, or left out).
C4_PopulatedRecord ==
    \A c \in Callers :
        /\ Done(c, "getInterpreterInformation")
        /\ BothResolved(c)
        /\ Script(c).out.doc.kind = "object"
        /\ Script(c).out.doc.hasVersionInfo
        => PopulatedAsClaimed(c)

C4_Witness ==
    \E c \in Callers :
        /\ Done(c, "getInterpreterInformation")
        /\ BothResolved(c)
        /\ Script(c).out.doc.is64Bit = "true"
        /\ Script(c).out.doc.versionInfo = <<Num(3), Str("x")>>
        /\ ret[c].kind = "info"
        /\ ret[c].info.architecture = "x64"

\* C5: in the version tuple of the returned record, each of positions 0-2
\* is the parsed entry if that is a number and 0 otherwise, and position 3
\* is the parsed entry if it is alpha, beta, candidate or final and
\* "unknown" otherwise, also when missing; [1, "x", 3, "rc"] becomes
\* [1, 0, 3, "unknown"].
C5_Sanitization ==
    \A c \in Callers :
        Done(c, "getInterpreterInformation") /\ ret[c].kind = "info" =>
            LET vi == Script(c).out.doc.versionInfo
                r == ret[c].info.version_info
            IN  /\ \A i \in 1..3 :
                    r[i] = IF i <= Len(vi) /\ vi[i].k = "number"
                           THEN vi[i] ELSE Num(0)
                /\ r[4] = IF Len(vi) >= 4 /\ vi[4].k = "string"
                             /\ vi[4].s \in {"alpha", "beta", "candidate",
                                             "final"}
                          THEN vi[4] ELSE Str("unknown")
                /\ vi = <<Num(1), Str("x"), Num(3), Str("rc")>> =>
                    r = <<Num(1), Num(0), Num(3), Str("unknown")>>

C5_Witness ==
    \E c \in Callers :
        /\ Done(c, "getInterpreterInformation")
        /\ Script(c).out.doc.versionInfo
                = <<Num(1), Str("x"), Num(3), Str("rc")>>
        /\ ret[c].info.version_info
                = <<Num(1), Num(0), Num(3), Str("unknown")>>

\* C6: getExecutablePath returns the configured path, with no process
\* execution, when the path exists as a file; otherwise it issues one
\* sys.executable execution with throwOnStdErr set and returns its trimmed
\* stdout, or fails with the execution's error when that execution fails.
C6_ExecutablePath ==
    \A c \in Callers :
        Done(c, "getExecutablePath") =>
            IF fileExisted[c]
            THEN ret[c] = RetString(pythonPath) /\ TotalIssued(c) = 0
            ELSE /\ TotalIssued(c) = 1 /\ issued[c]["main"] = 1
                 /\ Main(c).req = SysExecutableReq
                 /\ Main(c).req.throwOnStdErr
                 /\ Main(c).st \in {"resolved", "rejected"}
                 /\ Main(c).st = "resolved" =>
                        /\ ret[c].kind = "string"
                        /\ IsTrimOf(ret[c].str, Main(c).out.stdout)
                 /\ Main(c).st = "rejected" =>
                        ret[c] = Raise(ProcessError, "")

C6_Witness ==
    \E c \in Callers :
        /\ Done(c, "getExecutablePath")
        /\ ~fileExisted[c]
        /\ Main(c).out.stdout = <<" ", "p", " ", "q", "\n">>
        /\ ret[c] = RetString(<<"p", " ", "q">>)

\* C7: isModuleInstalled never ends in an error: it returns true exactly
\* when the import probe succeeded and false when the probe failed.
C7_IsModuleInstalled ==
    \A c \in Callers :
        Done(c, "isModuleInstalled") =>
            /\ ret[c].kind = "bool"
            /\ ret[c] = RetBool(Probe(c).st = "resolved")

C7_Witness ==
    \E c \in Callers :
        /\ Done(c, "isModuleInstalled")
        /\ Probe(c).st = "rejected"
        /\ ret[c] = RetBool(FALSE)

\* C8, as stated: whatever the process service does to the options it
\* receives, nothing the caller can inspect through its options object
\* changes: neither its fields nor the objects they refer to.
C8_AsStated ==
    /\ heap[OptionsId] = snapshot.top
    /\ envs[snapshot.top.env] = snapshot.envContent

\* C8, amended: the fields of the caller's options object itself are never
\* changed, whatever the process service does to the options it receives
\* (objects the fields refer to are shared with the copy).
C8_OptionsFieldsUnchanged == heap[OptionsId] = snapshot.top

C8_Witness ==
    /\ Main("a").st = "running" /\ Main("a").req.ref = "a"
    /\ Main("b").st = "running" /\ Main("b").req.ref = "b"
    /\ heap["a"] # heap[OptionsId]
    /\ heap["b"] = heap[OptionsId]
    /\ heap[OptionsId] = snapshot.top

\* C9, as stated: getInterpreterInformation does not produce its result
\* while one of its two executions is still running.
C9_AsStated ==
    \A c \in Callers :
        Done(c, "getInterpreterInformation") =>
            Version(c).st # "running" /\ Script(c).st # "running"

\* C9, amended: the two executions are launched together; a populated
\* result, or the parse of the helper script's output, comes only after
\* both have succeeded; when the result is produced while one is still
\* running, the other has failed and the result is absent.
C9_JoinBeforeResult ==
    \A c \in Callers :
        op[c] = "getInterpreterInformation" =>
            /\ Version(c).st # "none" /\ Script(c).st # "none"
            /\ issued[c]["version"] = 1 /\ issued[c]["script"] = 1
            /\ (ret[c].kind = "info" \/ logged[c] = <<ParseFailedMsg>>)
                    => BothResolved(c)
            /\ pc[c] = "done" /\ ~BothResolved(c) =>
                    /\ Version(c).st = "rejected" \/ Script(c).st = "rejected"
                    /\ ret[c] = Absent

C9_Witness ==
    \E c \in Callers :
        /\ Done(c, "getInterpreterInformation")
        /\ Version(c).st = "rejected"
        /\ Script(c).st = "running"
        /\ ret[c] = Absent

\* C10: no execution is issued twice within a call; discovery issues two
\* executions, exec, isModuleInstalled, execObservable and
\* execModuleObservable one, getExecutablePath at most one, and execModule
\* the module command once and at most one import probe, issued only after
\* the module command completed with stderr the heuristic flags.
C10_NoRetries ==
    \A c \in Callers :
        /\ \A s \in SlotNames : issued[c][s] <= 1
        /\ Done(c, "getInterpreterInformation") =>
                /\ TotalIssued(c) = 2
                /\ issued[c]["version"] = 1 /\ issued[c]["script"] = 1
        /\ \/ Done(c, "exec")
           \/ Done(c, "isModuleInstalled")
           \/ Done(c, "execObservable")
           \/ Done(c, "execModuleObservable")
           => TotalIssued(c) = 1
        /\ Done(c, "getExecutablePath") => TotalIssued(c) <= 1
        /\ Done(c, "execModule") =>
                issued[c]["main"] = 1 /\ TotalIssued(c) <= 2
        /\ op[c] = "execModule" /\ issued[c]["probe"] > 0 =>
                /\ Main(c).st = "resolved"
                /\ OutputHasModuleNotInstalledError(moduleName[c],
                                                    Main(c).out.stderr)

C10_Witness ==
    \E c \in Callers :
        /\ Done(c, "execModule")
        /\ issued[c]["main"] = 1
        /\ issued[c]["probe"] = 1
        /\ Probe(c).st = "resolved"

====
